---- MODULE Spec2Model ----
(***************************************************************************)
(* kubectl-cls: list the CronJobs and CronWorkflows whose cron schedule    *)
(* fires inside a --from/--to period (src/main.go).                        *)
(*                                                                         *)
(* Two specifications are given.                                           *)
(*   Spec      the command itself, run(), step by step.                    *)
(*   SpecTest  the table-driven calls of src/main_test.go: arguments are   *)
(*             drawn, then getScheduleIncludedCronJobs,                    *)
(*             getScheduleIncludedCronWorkflows and isInclude are applied. *)
(*                                                                         *)
(* Representation.                                                         *)
(*   - A namespace or a name is a Go string: a sequence of bytes.          *)
(*   - A time.Time is [sec, off]: the instant in seconds since             *)
(*     2023-01-24T00:00:00Z and the zone offset of its location.           *)
(*   - A Go slice is [nil, items]; a Go map is a function on its key set.  *)
(*   - github.com/robfig/cron/v3 is a dependency; ParseStandard and        *)
(*     Schedule.Next are modelled by their documented behaviour on the     *)
(*     schedule strings of ScheduleSpecs.                                  *)
(***************************************************************************)
EXTENDS Integers, Sequences, FiniteSets, TLC

VARIABLES
    pc,                     \* position in run() / in the test driver
    fromFlag, toFlag,       \* --from, --to
    outputFlag,             \* --output
    versionFlag,            \* --version
    from, to,               \* the period (time.Time)
    cronjobList,            \* cronjobList.Items
    cronworkflowList,       \* cronworkflowList.Items
    includedCronJobs,       \* result of getScheduleIncludedCronJobs
    includedCronWorkflows,  \* result of getScheduleIncludedCronWorkflows
    err,                    \* the error run() returns
    stdout,                 \* what run() printed
    invoked,                \* history: the filters run() has called so far
    gotCronJobs,            \* test driver: (got, err) of getScheduleIncludedCronJobs
    gotCronWorkflows,       \* test driver: (got, err) of getScheduleIncludedCronWorkflows
    gotIsInclude            \* test driver: schedule spec and result of isInclude

vars == <<pc, fromFlag, toFlag, outputFlag, versionFlag, from, to, cronjobList,
          cronworkflowList, includedCronJobs, includedCronWorkflows, err, stdout,
          invoked, gotCronJobs, gotCronWorkflows, gotIsInclude>>

-----------------------------------------------------------------------------
(* Bounds                                                                  *)

\* Longest collection handed to a filter by the test driver.
MaxItems == 2

\* Longest collection a list request returns in run().
MaxListed == 1

-----------------------------------------------------------------------------
(* Go strings as byte sequences                                            *)

\* Byte-wise lexicographic order of Go strings (what sort.Strings uses).
StringLess(s, t) ==
    \E i \in 1..(Len(s) + 1) :
        /\ \A j \in 1..(i - 1) : j <= Len(t) /\ s[j] = t[j]
        /\ i <= Len(t)
        /\ (i = Len(s) + 1 \/ s[i] < t[i])

\* The (namespace, name) pairs of the resources in the cluster:
\* a/bc, ab/c and a/b.
ResourceIds == {<<<<97>>, <<98, 99>>>>, <<<<97, 98>>, <<99>>>>, <<<<97>>, <<98>>>>}

-----------------------------------------------------------------------------
(* time.Time                                                               *)

\* time.Second, in seconds.
Second == 1

\* The zero time.Time (0001-01-01T00:00:00Z): earlier than every instant of
\* the model.
ZeroSec == -2147483647

Time(sec, off) == [sec |-> sec, off |-> off]
ZeroTime == Time(ZeroSec, 0)

\* t.UTC(): the same instant, located in UTC.
UTC(t) == Time(t.sec, 0)
\* t.Add(d)
Add(t, d) == Time(t.sec + d, t.off)
\* t.Equal(u), t.After(u): comparisons of instants, whatever the locations.
Equal(t, u) == t.sec = u.sec
After(t, u) == t.sec > u.sec

\* A flag value: absent (""), not in the layout, or an RFC 3339 timestamp
\* given as its wall-clock reading (seconds since 2023-01-24T00:00:00 on the
\* local clock) and its zone offset.
EmptyFlag == [form |-> "empty", wall |-> 0, off |-> 0]
MalformedFlag == [form |-> "malformed", wall |-> 0, off |-> 0]
Rfc3339(wall, off) == [form |-> "rfc3339", wall |-> wall, off |-> off]

\* time.Parse(timeLayout, flag): the instant is the wall clock minus the
\* offset, located at that offset.
TimeParse(flag) ==
    IF flag.form = "rfc3339"
    THEN [ok |-> TRUE, t |-> Time(flag.wall - flag.off, flag.off)]
    ELSE [ok |-> FALSE, t |-> ZeroTime]

-----------------------------------------------------------------------------
(* github.com/robfig/cron/v3                                               *)

\* The schedule strings resources carry.
ScheduleSpecs == {"* * * * *", "0 1 * * *", "0 0 30 2 *", "61 * * * *"}

\* cron.ParseStandard(spec): minute hour day-of-month month day-of-week.
\* The day-of-week field of every spec here is "*".  "61 * * * *" is
\* rejected (minute above 59); "0 0 30 2 *" is accepted although no
\* February has a 30th day.
ParseStandard(spec) ==
    CASE spec = "* * * * *" ->
            [ok |-> TRUE, minute |-> 0..59, hour |-> 0..23, dom |-> 1..31, month |-> 1..12]
      [] spec = "0 1 * * *" ->
            [ok |-> TRUE, minute |-> {0}, hour |-> {1}, dom |-> 1..31, month |-> 1..12]
      [] spec = "0 0 30 2 *" ->
            [ok |-> TRUE, minute |-> {0}, hour |-> {0}, dom |-> {30}, month |-> {2}]
      [] OTHER ->
            [ok |-> FALSE, minute |-> {}, hour |-> {}, dom |-> {}, month |-> {}]

Min(S) == CHOOSE x \in S : \A y \in S : x <= y

IsLeap(y) == (y % 4 = 0 /\ y % 100 # 0) \/ y % 400 = 0

DaysIn(y, m) ==
    IF m = 2 THEN (IF IsLeap(y) THEN 29 ELSE 28)
    ELSE IF m \in {4, 6, 9, 11} THEN 30 ELSE 31

\* The date n days after y-m-d.
RECURSIVE DateFrom(_, _, _, _)
DateFrom(y, m, d, n) ==
    IF d + n <= DaysIn(y, m)
    THEN [year |-> y, month |-> m, dom |-> d + n]
    ELSE DateFrom(IF m = 12 THEN y + 1 ELSE y, IF m = 12 THEN 1 ELSE m + 1, 1,
                  n - (DaysIn(y, m) - d + 1))

\* The date of day `day` of the model's clock (day 0 is 2023-01-24).
DateOf(day) == DateFrom(2023, 1, 24, day)

DayMatches(s, day) ==
    LET date == DateOf(day) IN date.month \in s.month /\ date.dom \in s.dom

\* Whether schedule s fires at wall-clock second `wall`.
Fires(s, wall) ==
    /\ wall % 60 = 0
    /\ (wall \div 60) % 60 \in s.minute
    /\ (wall \div 3600) % 24 \in s.hour
    /\ DayMatches(s, wall \div 86400)

\* The first minute of the day, at or after minute-of-day x, s fires at
\* (given that the day matches); -1 when there is none.
NextInDay(s, x) ==
    LET hx == x \div 60
        mx == x % 60
    IN  IF x < 1440 /\ hx \in s.hour /\ \E m \in s.minute : m >= mx
        THEN hx * 60 + Min({m \in s.minute : m >= mx})
        ELSE IF \E h \in s.hour : h > hx
        THEN Min({h \in s.hour : h > hx}) * 60 + Min(s.minute)
        ELSE -1

\* Whether some calendar date matches the day-of-month and month fields
\* (a leap year lies within the five-year search of sched.Next).
Satisfiable(s) ==
    /\ s.minute # {} /\ s.hour # {}
    /\ \E m \in s.month : \E d \in s.dom : d <= DaysIn(2024, m)

\* The first wall-clock minute, at or after minute x of day `day`, s fires at.
RECURSIVE NextFrom(_, _, _)
NextFrom(s, day, x) ==
    LET n == IF DayMatches(s, day) THEN NextInDay(s, x) ELSE -1
    IN  IF n >= 0 THEN day * 1440 + n ELSE NextFrom(s, day + 1, 0)

\* sched.Next(t): the earliest activation strictly after t, on the clock of
\* t's location; the zero time when none is found within five years.
SchedNext(s, t) ==
    LET wall == t.sec + t.off
        first == (wall \div 60) + 1
    IN  IF ~Satisfiable(s) THEN ZeroTime
        ELSE Time(NextFrom(s, first \div 1440, first % 1440) * 60 - t.off, t.off)

-----------------------------------------------------------------------------
(* isInclude (src/main.go)                                                 *)

\* Whether the schedule is included in the from-to period.
isInclude(sched, f, t) ==
    LET from1 == Add(f, -1 * Second)
        next == SchedNext(sched, from1)
    IN  IF Equal(next, t) THEN TRUE
        ELSE IF After(next, t) THEN FALSE
        ELSE TRUE

-----------------------------------------------------------------------------
(* Resources, slices, errors                                               *)

CronJob(id, schedule) ==
    [kind |-> "CronJob", namespace |-> id[1], name |-> id[2], schedule |-> schedule]
CronWorkflow(id, schedule) ==
    [kind |-> "CronWorkflow", namespace |-> id[1], name |-> id[2], schedule |-> schedule]

CronJobs == {CronJob(id, s) : id \in ResourceIds, s \in ScheduleSpecs}
CronWorkflows == {CronWorkflow(id, s) : id \in ResourceIds, s \in ScheduleSpecs}

\* The sequences over S of length at most n.
SeqUpTo(S, n) == UNION {[1..k -> S] : k \in 0..n}

NilSlice == [nil |-> TRUE, items |-> <<>>]
Slice(items) == [nil |-> FALSE, items |-> items]

NoErr == [msg |-> "", spec |-> "", namespace |-> <<>>, name |-> <<>>]
Error(msg) == [msg |-> msg, spec |-> "", namespace |-> <<>>, name |-> <<>>]
\* fmt.Errorf("failed to parse schedule spec '%s' of CronJob '%s/%s': %w", ...)
ParseError(r) ==
    [msg |-> "failed to parse schedule spec", spec |-> r.schedule,
     namespace |-> r.namespace, name |-> r.name]

\* The map key of a resource: Namespace + Name, with no separator.
Key(r) == r.namespace \o r.name

\* Mutant of MapSet: an existing entry is kept (first write wins).
MapSetIfAbsent(m, k, v) ==
    [x \in DOMAIN m \cup {k} |-> IF x \in DOMAIN m THEN m[x] ELSE v]

\* m[k] = v on a Go map.
MapSet(m, k, v) == [x \in DOMAIN m \cup {k} |-> IF x = k THEN v ELSE m[x]]
EmptyMap == [x \in {} |-> 0]

\* maps.Keys(m): the keys in an indeterminate order; every order is possible.
MapsKeys(m) ==
    LET n == Cardinality(DOMAIN m)
    IN  {ks \in [1..n -> DOMAIN m] : \A i, j \in 1..n : ks[i] = ks[j] => i = j}

\* Mutant of SortStrings: the keys are left in the order maps.Keys gave.
SortStringsOmitted(keys) == keys

\* sort.Strings(keys): insertion sort into ascending byte-wise order.
RECURSIVE Insert(_, _)
Insert(k, sorted) ==
    IF sorted = <<>> THEN <<k>>
    ELSE IF StringLess(Head(sorted), k) THEN <<Head(sorted)>> \o Insert(k, Tail(sorted))
    ELSE <<k>> \o sorted

RECURSIVE SortStrings(_)
SortStrings(keys) ==
    IF keys = <<>> THEN <<>> ELSE Insert(Head(keys), SortStrings(Tail(keys)))

-----------------------------------------------------------------------------
(* getScheduleIncludedCronJobs (src/main.go)                               *)

\* Mutant of NoCronJobs: the early return yields a nil slice.
NoCronJobsNil == [ret |-> NilSlice, err |-> NoErr]

\* The early return for an empty collection.
NoCronJobs == [ret |-> Slice(<<>>), err |-> NoErr]

\* Mutant of CronJobStep: every CronJob that parses is kept, whatever
\* isInclude says.
CronJobStepUnfiltered(cronjob, f, t, m) ==
    LET sched == ParseStandard(cronjob.schedule)
    IN  IF ~sched.ok THEN [m |-> m, err |-> ParseError(cronjob)]
        ELSE [m |-> MapSet(m, Key(cronjob), cronjob), err |-> NoErr]

\* One iteration of the loop over cronjobs, on the map m.
CronJobStep(cronjob, f, t, m) ==
    LET sched == ParseStandard(cronjob.schedule)
    IN  IF ~sched.ok THEN [m |-> m, err |-> ParseError(cronjob)]
        ELSE IF isInclude(sched, f, t)
        THEN [m |-> MapSet(m, Key(cronjob), cronjob), err |-> NoErr]
        ELSE [m |-> m, err |-> NoErr]

\* Mutant of CronJobLoop: the loop runs to the end and reports the last
\* schedule that failed to parse.
RECURSIVE CronJobLoopLastError(_, _, _, _)
CronJobLoopLastError(cronjobs, f, t, m) ==
    IF cronjobs = <<>> THEN [m |-> m, err |-> NoErr]
    ELSE LET step == CronJobStep(Head(cronjobs), f, t, m)
             rest == CronJobLoopLastError(Tail(cronjobs), f, t, step.m)
         IN  IF rest.err # NoErr THEN rest
             ELSE [m |-> rest.m, err |-> step.err]

\* The loop over cronjobs: stops at the first schedule that fails to parse.
RECURSIVE CronJobLoop(_, _, _, _)
CronJobLoop(cronjobs, f, t, m) ==
    IF cronjobs = <<>> THEN [m |-> m, err |-> NoErr]
    ELSE LET step == CronJobStep(Head(cronjobs), f, t, m)
         IN  IF step.err # NoErr THEN step
             ELSE CronJobLoop(Tail(cronjobs), f, t, step.m)

\* The sorted keys and the slice built from them, for every order maps.Keys
\* may return.
SortedCronJobs(m) ==
    {LET sortedKeys == SortStrings(ks)
     IN  [ret |-> Slice([i \in 1..Len(sortedKeys) |-> m[sortedKeys[i]]]), err |-> NoErr]
     : ks \in MapsKeys(m)}

\* The set of (ret, err) pairs a call may return.
getScheduleIncludedCronJobs(cronjobs, f, t) ==
    IF Len(cronjobs) = 0 THEN {NoCronJobs}
    ELSE LET loop == CronJobLoop(cronjobs, f, t, EmptyMap)
         IN  IF loop.err # NoErr THEN {[ret |-> NilSlice, err |-> loop.err]}
             ELSE SortedCronJobs(loop.m)

-----------------------------------------------------------------------------
(* getScheduleIncludedCronWorkflows (src/main.go)                          *)

NoCronWorkflows == [ret |-> Slice(<<>>), err |-> NoErr]

\* Mutant of CronWorkflowStep: the map is keyed by the name alone.
CronWorkflowStepKeyedByName(cronworkflow, f, t, m) ==
    LET sched == ParseStandard(cronworkflow.schedule)
    IN  IF ~sched.ok THEN [m |-> m, err |-> ParseError(cronworkflow)]
        ELSE IF isInclude(sched, f, t)
        THEN [m |-> MapSet(m, cronworkflow.name, cronworkflow), err |-> NoErr]
        ELSE [m |-> m, err |-> NoErr]

CronWorkflowStep(cronworkflow, f, t, m) ==
    LET sched == ParseStandard(cronworkflow.schedule)
    IN  IF ~sched.ok THEN [m |-> m, err |-> ParseError(cronworkflow)]
        ELSE IF isInclude(sched, f, t)
        THEN [m |-> MapSet(m, Key(cronworkflow), cronworkflow), err |-> NoErr]
        ELSE [m |-> m, err |-> NoErr]

RECURSIVE CronWorkflowLoop(_, _, _, _)
CronWorkflowLoop(cronworkflows, f, t, m) ==
    IF cronworkflows = <<>> THEN [m |-> m, err |-> NoErr]
    ELSE LET step == CronWorkflowStep(Head(cronworkflows), f, t, m)
         IN  IF step.err # NoErr THEN step
             ELSE CronWorkflowLoop(Tail(cronworkflows), f, t, step.m)

SortedCronWorkflows(m) ==
    {LET sortedKeys == SortStrings(ks)
     IN  [ret |-> Slice([i \in 1..Len(sortedKeys) |-> m[sortedKeys[i]]]), err |-> NoErr]
     : ks \in MapsKeys(m)}

getScheduleIncludedCronWorkflows(cronworkflows, f, t) ==
    IF Len(cronworkflows) = 0 THEN {NoCronWorkflows}
    ELSE LET loop == CronWorkflowLoop(cronworkflows, f, t, EmptyMap)
         IN  IF loop.err # NoErr THEN {[ret |-> NilSlice, err |-> loop.err]}
             ELSE SortedCronWorkflows(loop.m)

-----------------------------------------------------------------------------
(* run (src/main.go)                                                       *)

\* The values the flags take: --from and --to absent, malformed, or one of
\* the instants 00:59:59Z, 01:00:00Z, 01:00:01Z written in UTC or at +09:00.
FlagInstants == {3599, 3600, 3601}
FlagOffsets == {0, 32400}
TimeFlags ==
    {EmptyFlag, MalformedFlag} \cup
    {Rfc3339(i + o, o) : i \in FlagInstants, o \in FlagOffsets}
OutputFlags == {"", "json", "yaml"}

NotListed == [listed |-> FALSE, items |-> <<>>]
Listed(items) == [listed |-> TRUE, items |-> items]
NoOutput == [text |-> "", items |-> <<>>]
NoResult == [ret |-> NilSlice, err |-> NoErr]
NoVerdict == [spec |-> "", got |-> FALSE]

Init ==
    /\ pc = "start"
    /\ fromFlag = EmptyFlag /\ toFlag = EmptyFlag
    /\ outputFlag = "" /\ versionFlag = FALSE
    /\ from = ZeroTime /\ to = ZeroTime
    /\ cronjobList = NotListed /\ cronworkflowList = NotListed
    /\ includedCronJobs = NilSlice /\ includedCronWorkflows = NilSlice
    /\ err = NoErr
    /\ stdout = NoOutput
    /\ invoked = {}
    /\ gotCronJobs = NoResult /\ gotCronWorkflows = NoResult
    /\ gotIsInclude = NoVerdict

testVars == <<gotCronJobs, gotCronWorkflows, gotIsInclude>>

\* return e
Return(e) == pc' = "done" /\ err' = e

\* fsets.Parse(args[1:]): the flags are set, or the arguments are rejected.
ParseArgs ==
    /\ pc = "start"
    /\ \/ /\ \E ff \in TimeFlags, tf \in TimeFlags, o \in OutputFlags, v \in BOOLEAN :
                /\ fromFlag' = ff /\ toFlag' = tf
                /\ outputFlag' = o /\ versionFlag' = v
          /\ pc' = "version"
          /\ err' = err
       \/ /\ Return(Error("flag parsing failed"))
          /\ UNCHANGED <<fromFlag, toFlag, outputFlag, versionFlag>>
    /\ UNCHANGED <<from, to, cronjobList, cronworkflowList, includedCronJobs,
                   includedCronWorkflows, stdout, invoked, testVars>>

\* if versionFlag { print; return nil }
PrintVersion ==
    /\ pc = "version"
    /\ IF versionFlag
       THEN /\ stdout' = [text |-> "version", items |-> <<>>]
            /\ Return(NoErr)
       ELSE /\ pc' = "from"
            /\ UNCHANGED <<stdout, err>>
    /\ UNCHANGED <<fromFlag, toFlag, outputFlag, versionFlag, from, to, cronjobList,
                   cronworkflowList, includedCronJobs, includedCronWorkflows,
                   invoked, testVars>>

\* Set the start time of the period.
SetFrom ==
    /\ pc = "from"
    /\ IF fromFlag = EmptyFlag
       THEN Return(Error("please set --from flag")) /\ from' = from
       ELSE LET parsed == TimeParse(fromFlag)
            IN  IF ~parsed.ok
                THEN Return(Error("failed to parse '--from' value")) /\ from' = parsed.t
                ELSE /\ from' = UTC(parsed.t)
                     /\ pc' = "to"
                     /\ err' = err
    /\ UNCHANGED <<fromFlag, toFlag, outputFlag, versionFlag, to, cronjobList,
                   cronworkflowList, includedCronJobs, includedCronWorkflows, stdout,
                   invoked, testVars>>

\* Set the end time of the period: to is parsed from --to and then assigned
\* from.UTC().
SetTo ==
    /\ pc = "to"
    /\ IF toFlag = EmptyFlag
       THEN Return(Error("please set --to flag")) /\ to' = to
       ELSE LET parsed == TimeParse(toFlag)
            IN  IF ~parsed.ok
                THEN Return(Error("failed to parse '--to' value")) /\ to' = parsed.t
                ELSE /\ to' = UTC(from)
                     /\ pc' = "validate"
                     /\ err' = err
    /\ UNCHANGED <<fromFlag, toFlag, outputFlag, versionFlag, from, cronjobList,
                   cronworkflowList, includedCronJobs, includedCronWorkflows, stdout,
                   invoked, testVars>>

\* Validation
Validate ==
    /\ pc = "validate"
    /\ IF After(from, to)
       THEN Return(Error("'--from' '--to' times are reversed"))
       ELSE IF outputFlag # "" /\ outputFlag # "json"
       THEN Return(Error("unsupported output format"))
       ELSE pc' = "list_cronjobs" /\ err' = err
    /\ UNCHANGED <<fromFlag, toFlag, outputFlag, versionFlag, from, to, cronjobList,
                   cronworkflowList, includedCronJobs, includedCronWorkflows, stdout,
                   invoked, testVars>>

\* List CronJobs: the cluster answers with a collection, or a step fails.
ListCronJobs ==
    /\ pc = "list_cronjobs"
    /\ \/ /\ \E items \in SeqUpTo(CronJobs, MaxListed) : cronjobList' = Listed(items)
          /\ pc' = "filter_cronjobs"
          /\ err' = err
       \/ /\ Return(Error("failed to get CronJobs"))
          /\ cronjobList' = cronjobList
    /\ UNCHANGED <<fromFlag, toFlag, outputFlag, versionFlag, from, to,
                   cronworkflowList, includedCronJobs, includedCronWorkflows, stdout,
                   invoked, testVars>>

\* includedCronJobs, err := getScheduleIncludedCronJobs(cronjobList.Items, from, to)
FilterCronJobs ==
    /\ pc = "filter_cronjobs"
    /\ invoked' = invoked \cup {"getScheduleIncludedCronJobs"}
    /\ \E r \in getScheduleIncludedCronJobs(cronjobList.items, from, to) :
          /\ includedCronJobs' = r.ret
          /\ IF r.err # NoErr
             THEN Return(Error("failed to get CronJobs in the from-to period"))
             ELSE pc' = "list_cronworkflows" /\ err' = err
    /\ UNCHANGED <<fromFlag, toFlag, outputFlag, versionFlag, from, to, cronjobList,
                   cronworkflowList, includedCronWorkflows, stdout, testVars>>

\* List CronWorkflows
ListCronWorkflows ==
    /\ pc = "list_cronworkflows"
    /\ \/ /\ \E items \in SeqUpTo(CronWorkflows, MaxListed) :
                cronworkflowList' = Listed(items)
          /\ pc' = "filter_cronworkflows"
          /\ err' = err
       \/ /\ Return(Error("failed to get CronWorkflow"))
          /\ cronworkflowList' = cronworkflowList
    /\ UNCHANGED <<fromFlag, toFlag, outputFlag, versionFlag, from, to, cronjobList,
                   includedCronJobs, includedCronWorkflows, stdout, invoked, testVars>>

\* includedCronWorkflows, err := getScheduleIncludedCronWorkflows(cronworkflowList.Items, from, to)
FilterCronWorkflows ==
    /\ pc = "filter_cronworkflows"
    /\ invoked' = invoked \cup {"getScheduleIncludedCronWorkflows"}
    /\ \E r \in getScheduleIncludedCronWorkflows(cronworkflowList.items, from, to) :
          /\ includedCronWorkflows' = r.ret
          /\ IF r.err # NoErr
             THEN Return(Error("failed to get CronWorkflows in the from-to period"))
             ELSE pc' = "print" /\ err' = err
    /\ UNCHANGED <<fromFlag, toFlag, outputFlag, versionFlag, from, to, cronjobList,
                   cronworkflowList, includedCronJobs, stdout, testVars>>

\* PrintResults: the CronJobs, then the CronWorkflows, as a table or as JSON.
PrintResults ==
    /\ pc = "print"
    /\ stdout' = [text |-> IF outputFlag = "json" THEN "json" ELSE "list",
                  items |-> includedCronJobs.items \o includedCronWorkflows.items]
    /\ Return(NoErr)
    /\ UNCHANGED <<fromFlag, toFlag, outputFlag, versionFlag, from, to, cronjobList,
                   cronworkflowList, includedCronJobs, includedCronWorkflows,
                   invoked, testVars>>

Next ==
    \/ ParseArgs
    \/ PrintVersion
    \/ SetFrom
    \/ SetTo
    \/ Validate
    \/ ListCronJobs
    \/ FilterCronJobs
    \/ ListCronWorkflows
    \/ FilterCronWorkflows
    \/ PrintResults

Spec == Init /\ [][Next]_vars

-----------------------------------------------------------------------------
(* The table-driven tests (src/main_test.go)                               *)

\* The instants the test windows are made of: 00:00:00Z, 00:59:59Z,
\* 01:00:00Z and 01:00:01Z of 2023-01-24.
TestInstants == {0, 3599, 3600, 3601}

\* getTime(value): time.Parse, then UTC().
getTime(flag) == UTC(TimeParse(flag).t)

\* The schedule specs getSchedule accepts (it panics on the others).
ValidSpecs == {spec \in ScheduleSpecs : ParseStandard(spec).ok}

\* A test case: a collection of (namespace, name, schedule) triples, given
\* once as CronJobs and once as CronWorkflows, and a window from <= to.
InitTest ==
    /\ pc = "test_cronjobs"
    /\ \E n \in 0..MaxItems :
         \E ids \in [1..n -> ResourceIds], specs \in [1..n -> ScheduleSpecs] :
            /\ cronjobList = Listed([i \in 1..n |-> CronJob(ids[i], specs[i])])
            /\ cronworkflowList = Listed([i \in 1..n |-> CronWorkflow(ids[i], specs[i])])
    /\ \E f \in TestInstants, t \in TestInstants :
            /\ f <= t
            /\ from = getTime(Rfc3339(f, 0))
            /\ to = getTime(Rfc3339(t, 0))
    /\ fromFlag = EmptyFlag /\ toFlag = EmptyFlag
    /\ outputFlag = "" /\ versionFlag = FALSE
    /\ includedCronJobs = NilSlice /\ includedCronWorkflows = NilSlice
    /\ err = NoErr
    /\ stdout = NoOutput
    /\ invoked = {}
    /\ gotCronJobs = NoResult /\ gotCronWorkflows = NoResult
    /\ gotIsInclude = NoVerdict

runVars == <<fromFlag, toFlag, outputFlag, versionFlag, from, to, cronjobList,
             cronworkflowList, includedCronJobs, includedCronWorkflows, err, stdout,
             invoked>>

\* got, err := getScheduleIncludedCronJobs(tt.args.cronjobs, tt.args.from, tt.args.to)
TestCronJobs ==
    /\ pc = "test_cronjobs"
    /\ gotCronJobs' \in getScheduleIncludedCronJobs(cronjobList.items, from, to)
    /\ pc' = "test_cronworkflows"
    /\ UNCHANGED <<runVars, gotCronWorkflows, gotIsInclude>>

\* got, err := getScheduleIncludedCronWorkflows(tt.args.cronworkflows, tt.args.from, tt.args.to)
TestCronWorkflows ==
    /\ pc = "test_cronworkflows"
    /\ gotCronWorkflows' \in
            getScheduleIncludedCronWorkflows(cronworkflowList.items, from, to)
    /\ pc' = "test_isInclude"
    /\ UNCHANGED <<runVars, gotCronJobs, gotIsInclude>>

\* got := isInclude(tt.args.sched, tt.args.from, tt.args.to)
TestIsInclude ==
    /\ pc = "test_isInclude"
    /\ \E spec \in ValidSpecs :
          gotIsInclude' =
              [spec |-> spec, got |-> isInclude(ParseStandard(spec), from, to)]
    /\ pc' = "tested"
    /\ UNCHANGED <<runVars, gotCronJobs, gotCronWorkflows>>

NextTest ==
    \/ TestCronJobs
    \/ TestCronWorkflows
    \/ TestIsInclude

SpecTest == InitTest /\ [][NextTest]_vars

-----------------------------------------------------------------------------
(* Vocabulary of the properties                                            *)

\* Whether schedule s has an occurrence at an instant of [lo, hi] (seconds),
\* on the UTC clock: some whole minute of the interval at which s fires.
HasOccurrence(s, lo, hi) ==
    \E k \in ((lo + 59) \div 60)..(hi \div 60) : Fires(s, k * 60)

\* The instant a timestamp flag denotes.
FlagInstant(flag) == flag.wall - flag.off

\* Whether the filters keep resource r for the window [f, t].
Included(r, f, t) ==
    LET sched == ParseStandard(r.schedule) IN sched.ok /\ isInclude(sched, f, t)

AllParse(items) == \A i \in DOMAIN items : ParseStandard(items[i].schedule).ok

Triple(r) == <<r.namespace, r.name, r.schedule>>
Triples(items) == [i \in DOMAIN items |-> Triple(items[i])]
Keys(items) == [i \in DOMAIN items |-> Key(items[i])]

\* The test driver has called getScheduleIncludedCronJobs / both filters.
CronJobsTested == pc \in {"test_cronworkflows", "test_isInclude", "tested"}
BothTested == pc \in {"test_isInclude", "tested"}

\* seq rearranged by the permutation p of its indices.
Permuted(seq, p) == [i \in DOMAIN seq |-> seq[p[i]]]
IndexPermutations(n) == {p \in [1..n -> 1..n] : \A i, j \in 1..n : p[i] = p[j] => i = j}

-----------------------------------------------------------------------------
(* C1                                                                      *)

\* C1: isInclude(sched, from, to) is true exactly when the schedule has an
\* occurrence t with from <= t <= to (for every schedule, from <= to).
C1_IsIncludeIffOccurrence ==
    pc = "tested" =>
        (gotIsInclude.got <=>
            HasOccurrence(ParseStandard(gotIsInclude.spec), from.sec, to.sec))

\* What does hold: the equivalence for every schedule that fires at all.
IsIncludeIffOccurrenceWhenSatisfiable ==
    (pc = "tested" /\ Satisfiable(ParseStandard(gotIsInclude.spec))) =>
        (gotIsInclude.got <=>
            HasOccurrence(ParseStandard(gotIsInclude.spec), from.sec, to.sec))

-----------------------------------------------------------------------------
(* C2                                                                      *)

\* Whether run printed resource r.
Printed(r) == \E j \in DOMAIN stdout.items : stdout.items[j] = r

\* C2: run evaluates the collections against [F, T], the instants of --from
\* and --to: every resource whose schedule has an occurrence strictly after
\* --from and at or before --to is listed.
C2_WindowIsFromTo ==
    (/\ pc = "done" /\ err = NoErr /\ ~versionFlag
     /\ FlagInstant(fromFlag) <= FlagInstant(toFlag)) =>
        /\ \A i \in DOMAIN cronjobList.items :
              HasOccurrence(ParseStandard(cronjobList.items[i].schedule),
                            FlagInstant(fromFlag) + 1, FlagInstant(toFlag))
              => Printed(cronjobList.items[i])
        /\ \A i \in DOMAIN cronworkflowList.items :
              HasOccurrence(ParseStandard(cronworkflowList.items[i].schedule),
                            FlagInstant(fromFlag) + 1, FlagInstant(toFlag))
              => Printed(cronworkflowList.items[i])

-----------------------------------------------------------------------------
(* C3                                                                      *)

\* C3: when --from is later than --to, run does not get past its
\* validation: it returns the reversed-window error before either filter is
\* invoked and before any resource is listed.
C3_ReversedWindowRejected ==
    (/\ ~versionFlag
     /\ fromFlag.form = "rfc3339" /\ toFlag.form = "rfc3339"
     /\ FlagInstant(fromFlag) > FlagInstant(toFlag)) =>
        /\ pc \in {"version", "from", "to", "validate", "done"}
        /\ pc = "done" => err = Error("'--from' '--to' times are reversed")
        /\ invoked = {}
        /\ cronjobList = NotListed /\ cronworkflowList = NotListed

-----------------------------------------------------------------------------
(* C4                                                                      *)

\* C4: when every schedule parses, getScheduleIncludedCronJobs returns
\* without error; every returned item is an input item for which isInclude
\* is true; and every key (namespace+name) of an included input item is
\* carried by exactly one returned item.
C4_ExactlyTheIncluded ==
    (CronJobsTested /\ AllParse(cronjobList.items)) =>
        LET in == cronjobList.items
            out == gotCronJobs.ret.items
        IN  /\ gotCronJobs.err = NoErr
            /\ \A j \in DOMAIN out :
                  \E i \in DOMAIN in : in[i] = out[j] /\ Included(in[i], from, to)
            /\ \A i \in DOMAIN in :
                  Included(in[i], from, to) =>
                      Cardinality({j \in DOMAIN out : Key(out[j]) = Key(in[i])}) = 1

\* A call where every schedule parses, one item is kept and another dropped.
C4_Witness ==
    /\ CronJobsTested
    /\ AllParse(cronjobList.items)
    /\ Len(gotCronJobs.ret.items) >= 1
    /\ \E i \in DOMAIN cronjobList.items : ~Included(cronjobList.items[i], from, to)
    /\ \E i \in DOMAIN cronjobList.items : Included(cronjobList.items[i], from, to)

-----------------------------------------------------------------------------
(* C5                                                                      *)

\* C5: the keys (namespace+name) of the output are strictly ascending in
\* byte-wise lexicographic order, and every permutation of the input yields
\* the same sequence of keys.
C5_SortedAndOrderIndependent ==
    pc = "test_cronworkflows" =>
        LET out == gotCronJobs.ret.items
            n == Len(cronjobList.items)
        IN  /\ \A j \in 1..(Len(out) - 1) : StringLess(Key(out[j]), Key(out[j + 1]))
            /\ \A p \in IndexPermutations(n) :
                  \A r \in getScheduleIncludedCronJobs(
                               Permuted(cronjobList.items, p), from, to) :
                      Keys(r.ret.items) = Keys(out)

\* A call whose output has two items that the input gave in the other order.
C5_Witness ==
    /\ CronJobsTested
    /\ Len(gotCronJobs.ret.items) >= 2
    /\ \E i, j \in DOMAIN cronjobList.items :
          /\ i < j
          /\ cronjobList.items[i] = gotCronJobs.ret.items[2]
          /\ cronjobList.items[j] = gotCronJobs.ret.items[1]

-----------------------------------------------------------------------------
(* C6                                                                      *)

\* The index of the first resource whose schedule fails to parse.
FirstInvalid(items) ==
    Min({i \in DOMAIN items : ~ParseStandard(items[i].schedule).ok})

\* C6 as stated: if the schedule of any resource fails to parse, whatever
\* its position and whatever the other resources are, the filter returns an
\* error naming that resource's namespace, name and schedule spec, and no
\* resources at all.
C6_ErrorNamesEveryInvalid ==
    BothTested =>
        /\ \A i \in DOMAIN cronjobList.items :
              ~ParseStandard(cronjobList.items[i].schedule).ok =>
                  /\ gotCronJobs.err = ParseError(cronjobList.items[i])
                  /\ gotCronJobs.ret = NilSlice
        /\ \A i \in DOMAIN cronworkflowList.items :
              ~ParseStandard(cronworkflowList.items[i].schedule).ok =>
                  /\ gotCronWorkflows.err = ParseError(cronworkflowList.items[i])
                  /\ gotCronWorkflows.ret = NilSlice

\* C6 (amended): if the schedule of any resource fails to parse, the filter
\* returns an error naming the namespace, name and schedule spec of the
\* first such resource in input order, and no resources at all (a nil
\* slice: nothing partial, the invalid resource is not skipped).
C6_ErrorNamesFirstInvalid ==
    (BothTested /\ ~AllParse(cronjobList.items)) =>
        LET i == FirstInvalid(cronjobList.items)
        IN  /\ gotCronJobs.err = ParseError(cronjobList.items[i])
            /\ gotCronJobs.ret = NilSlice
            /\ gotCronWorkflows.err = ParseError(cronworkflowList.items[i])
            /\ gotCronWorkflows.ret = NilSlice

\* Both filters have failed on a collection whose last resource is the only
\* invalid one, after a resource that is included.
C6_Witness ==
    /\ BothTested
    /\ Len(cronjobList.items) >= 2
    /\ ~AllParse(cronjobList.items)
    /\ FirstInvalid(cronjobList.items) = Len(cronjobList.items)
    /\ Included(cronjobList.items[1], from, to)
    /\ gotCronJobs.err # NoErr
    /\ gotCronWorkflows.err # NoErr

-----------------------------------------------------------------------------
(* C7                                                                      *)

\* The last included input item that has key k.
LastIncluded(items, k, f, t) ==
    items[CHOOSE i \in DOMAIN items :
            /\ Key(items[i]) = k /\ Included(items[i], f, t)
            /\ \A j \in DOMAIN items :
                  (Key(items[j]) = k /\ Included(items[j], f, t)) => j <= i]

\* C7: when included input items share an identity key (namespace+name),
\* the output holds exactly one item for that key, and it is the last of
\* them in input order.
C7_LastWriteWins ==
    (CronJobsTested /\ gotCronJobs.err = NoErr) =>
        LET in == cronjobList.items
            out == gotCronJobs.ret.items
        IN  \A i \in DOMAIN in :
                Included(in[i], from, to) =>
                    /\ Cardinality({j \in DOMAIN out : Key(out[j]) = Key(in[i])}) = 1
                    /\ \E j \in DOMAIN out :
                          out[j] = LastIncluded(in, Key(in[i]), from, to)

\* Two included items with the same namespace and name and different
\* schedules; the call returned the later one.
C7_Witness ==
    /\ CronJobsTested /\ gotCronJobs.err = NoErr
    /\ \E i, j \in DOMAIN cronjobList.items :
          /\ i < j
          /\ cronjobList.items[i].namespace = cronjobList.items[j].namespace
          /\ cronjobList.items[i].name = cronjobList.items[j].name
          /\ cronjobList.items[i].schedule # cronjobList.items[j].schedule
          /\ Included(cronjobList.items[i], from, to)
          /\ Included(cronjobList.items[j], from, to)
          /\ gotCronJobs.ret.items = <<cronjobList.items[j]>>

-----------------------------------------------------------------------------
(* C8                                                                      *)

\* C8: for an empty collection and any window, both filters return an empty
\* slice that is not nil, and no error.
C8_EmptyInEmptyOut ==
    (BothTested /\ cronjobList.items = <<>> /\ cronworkflowList.items = <<>>) =>
        /\ gotCronJobs = [ret |-> [nil |-> FALSE, items |-> <<>>], err |-> NoErr]
        /\ gotCronWorkflows = [ret |-> [nil |-> FALSE, items |-> <<>>], err |-> NoErr]

\* Both filters have been called on the empty collection.
C8_Witness ==
    /\ BothTested
    /\ cronjobList.items = <<>> /\ cronworkflowList.items = <<>>
    /\ ~gotCronJobs.ret.nil /\ ~gotCronWorkflows.ret.nil

-----------------------------------------------------------------------------
(* C9                                                                      *)

\* C9: on the same (namespace, name, schedule) triples and the same window
\* the two filters both fail, or both succeed with the same sequence of
\* triples.
C9_SameForBothKinds ==
    (BothTested /\ Triples(cronjobList.items) = Triples(cronworkflowList.items)) =>
        /\ (gotCronJobs.err = NoErr) <=> (gotCronWorkflows.err = NoErr)
        /\ gotCronJobs.ret.nil <=> gotCronWorkflows.ret.nil
        /\ Triples(gotCronJobs.ret.items) = Triples(gotCronWorkflows.ret.items)

\* Both filters succeeded with two items, from an input in another order.
C9_Witness ==
    /\ BothTested
    /\ Triples(cronjobList.items) = Triples(cronworkflowList.items)
    /\ gotCronJobs.err = NoErr
    /\ Len(gotCronWorkflows.ret.items) = 2
    /\ Triples(gotCronWorkflows.ret.items) # Triples(cronworkflowList.items)

-----------------------------------------------------------------------------
(* C10                                                                     *)

\* C10: deduplication collapses only resources with the same namespace and
\* the same name: every included item whose (namespace, name) pair occurs
\* once in the input is in the output, and the output has as many items as
\* there are distinct (namespace, name) pairs among the included items.
C10_DedupByNamespaceAndName ==
    (CronJobsTested /\ gotCronJobs.err = NoErr) =>
        LET in == cronjobList.items
            out == gotCronJobs.ret.items
            Pair(r) == <<r.namespace, r.name>>
        IN  /\ \A i \in DOMAIN in :
                  (/\ Included(in[i], from, to)
                   /\ \A j \in DOMAIN in : Pair(in[j]) = Pair(in[i]) => j = i)
                  => \E j \in DOMAIN out : out[j] = in[i]
            /\ Len(out) =
                  Cardinality({Pair(in[i]) : i \in {i \in DOMAIN in :
                                                      Included(in[i], from, to)}})

====
